---- MODULE Spec2Model ----
(***************************************************************************)
(* Streaming export with retry and fallback, as implemented by             *)
(*   bq_to_gcs_xml.py       stream_table_to_gcs_binary_with_fallback       *)
(*   generatedata_in_gcs.py stream_csv_to_gcs                              *)
(*   generatedata_in_local.py upload_to_gcs                                *)
(*   bq_to_xml_local_gcs.py stream_table_to_xml_file                       *)
(* with the entry points (main) of the two XML programs, main of           *)
(* load2bigquery.py and add_months.                                        *)
(* One run of one function or entry point is one behaviour.  Every call    *)
(* into the storage / warehouse client may succeed or raise.               *)
(***************************************************************************)
EXTENDS Integers, Sequences, FiniteSets, TLC

\* ---------------------------------------------------------------- bounds
MaxRetries == 3
MaxBackoff == 3
MaxRows == 2
MaxStrLen == 3

\* ------------------------------------------------------ program constants
DefaultRetries == 3
DefaultBackoff == 2

Progs == {"xml", "csv", "upl", "loc"}

\* ------------------------------------------------------------- exceptions
NoExc == [kind |-> "none", at |-> 0]

Exc(k, a) == [kind |-> k, at |-> a]

\* ------------------------------------------------------------ data model
\* A value of a BigQuery cell: None or a string (sequence of characters).
None == [isNone |-> TRUE, str |-> <<>>]

Str(s) == [isNone |-> FALSE, str |-> s]

schema_columns == <<"id", "status">>

RowPool ==
  { [id |-> Str(<<"a">>), status |-> None],
    [id |-> Str(<<"<", "&">>), status |-> Str(<<"b">>)] }

RECURSIVE SeqsUpTo(_, _)
SeqsUpTo(S, n) ==
  IF n = 0 THEN { <<>> }
  ELSE LET shorter == SeqsUpTo(S, n - 1)
       IN  shorter \cup { Append(s, x) : s \in { t \in shorter : Len(t) = n - 1 }, x \in S }

Tables == SeqsUpTo(RowPool, MaxRows)

DigitChar == <<"1", "2", "3", "4", "5", "6", "7", "8", "9">>

\* rows produced by the generator: row i carries Loan_ID L<i>
generate_loans_rows(n_rows) ==
  [i \in 1..n_rows |-> [Loan_ID |-> <<"L", DigitChar[i]>>]]

\* one unit handed to a writer: a line of the document
Chunk(t, c, x, e) == [tag |-> t, col |-> c, text |-> x, eol |-> e]

\* the object at the destination before the run
OldObject == << Chunk("old", "", <<>>, "") >>

\* the local file uploaded by upload_to_gcs
LocalFile == << Chunk("file", "", <<>>, "") >>

\* ------------------------------------------------------------ serializer
safe_format_value(value) == IF value.isNone THEN <<>> ELSE value.str

EscapeCharNoAmp(c) ==
  IF c = ">" THEN <<"&", "g", "t", ";">>
  ELSE IF c = "<" THEN <<"&", "l", "t", ";">>
  ELSE <<c>>

EscapeChar(c) ==
  IF c = "&" THEN <<"&", "a", "m", "p", ";">>
  ELSE IF c = ">" THEN <<"&", "g", "t", ";">>
  ELSE IF c = "<" THEN <<"&", "l", "t", ";">>
  ELSE <<c>>

RECURSIVE xml_escape(_)
xml_escape(s) ==
  IF s = <<>> THEN <<>> ELSE EscapeChar(Head(s)) \o xml_escape(Tail(s))

XmlDecl == Chunk("xmldecl", "", <<>>, "LF")

RootOpen == Chunk("Defaulters", "", <<>>, "LF")

RootClose == Chunk("/Defaulters", "", <<>>, "LF")

RowOpen == Chunk("Defaulter", "", <<>>, "LF")

RowClose == Chunk("/Defaulter", "", <<>>, "LF")

FieldChunkNoneLiteral(r, c) ==
  LET value == r[c]
  IN  IF value.isNone
      THEN Chunk("field", c, <<"N", "o", "n", "e">>, "LF")
      ELSE Chunk("field", c, xml_escape(safe_format_value(value)), "LF")

FieldChunk(r, c) ==
  LET value == r[c]
  IN  IF value.isNone
      THEN Chunk("field", c, <<>>, "LF")
      ELSE Chunk("field", c, xml_escape(safe_format_value(value)), "LF")

CsvHeader(e) == Chunk("csvheader", "", <<>>, e)

CsvLine(r, e) == Chunk("csvrow", "", r.Loan_ID, e)

\* ------------------------------------------------------------ retry policy
RECURSIVE Pow(_, _)
Pow(b, e) == IF e <= 0 THEN 1 ELSE b * Pow(b, e - 1)

BackoffWaitLinear(b, a) == b * a

BackoffWait(b, a) == Pow(b, a)

StreamExhaustedEarly(a, r) == a + 1 >= r

StreamExhausted(a, r) == a >= r

UploadExhaustedLate(a, r) == a > r

UploadExhausted(a, r) == a >= r

\* ------------------------------------------------------------------ state
VARIABLES
  prog,        \* which function runs
  retries, backoff, table,
  pc,
  attempt,     \* the loop counter of the current tier
  rows,        \* position of the row iterator: 0 none, i next row is i
               \* (inside a loop body the current row is rows - 1)
  colIdx,      \* the column being written
  raw_stream,  \* 0 for None / unbound, else index into handles
  handles,     \* status of every write handle ever opened
  streamed,    \* chunks written through raw_stream, not yet finalized
  written,
  sio,         \* in-memory buffer of the fallback tier
  content_bytes,
  blob,        \* the committed object at the destination
  exc,         \* the exception being propagated or handled
  result,      \* "running", "uri", "path", "raised", "none"
  via,         \* the tier that reported success
  tries, fails, sleeps,  \* per tier: attempts started, attempts failed, waits
  fellBack,    \* the fallback tier was entered
  openFails,   \* number of failed blob.open calls
  args,        \* the command line of main
  mpc,         \* the position of main ("none": a function called alone)
  status,      \* the exit status of the process, NotExited while it runs
  stderr,      \* what main and its callees printed to sys.stderr
  bq,          \* the BigQuery side of load2bigquery.py: dataset and jobs
  start_date, months, end_date  \* the call of add_months

vars == <<prog, retries, backoff, table, pc, attempt, rows, colIdx,
          raw_stream, handles, streamed, written, sio, content_bytes, blob,
          exc, result, via, tries, fails, sleeps, fellBack, openFails,
          args, mpc, status, stderr, bq, start_date, months, end_date>>

\* what a call of one of the export functions leaves alone: its arguments
\* and the state of its caller
params == <<prog, retries, backoff, table, args, mpc, status, stderr, bq,
            start_date, months, end_date>>

NotExited == 0 - 1

NoArgs == [project |-> FALSE, upload |-> FALSE, bucket |-> FALSE]

NoDataset == [exists |-> FALSE, location |-> ""]

NoBq == [dataset |-> NoDataset, was |-> NoDataset, created |-> 0,
         ensured |-> FALSE, jobs |-> 0, num_rows |-> 0]

NoDate == [year |-> 0, month |-> 0, day |-> 0]

\* no main, no warehouse and no date arithmetic take part in the run
Alone ==
  /\ args = NoArgs
  /\ mpc = "none"
  /\ status = NotExited
  /\ stderr = <<>>
  /\ bq = NoBq
  /\ start_date = NoDate
  /\ months = 0
  /\ end_date = NoDate

Bump(f, t) == [f EXCEPT ![t] = @ + 1]

Init ==
  /\ prog \in Progs
  /\ retries \in 0..MaxRetries
  /\ backoff \in DefaultBackoff..MaxBackoff
  /\ \/ prog = "xml" /\ table \in Tables /\ pc = "x_get_table" /\ rows = 0
     \/ prog = "csv" /\ table \in { generate_loans_rows(n) : n \in 0..MaxRows }
                     /\ pc = "c_lookup_bucket" /\ rows = 1
     \/ prog = "upl" /\ table = <<>> /\ pc = "u_while" /\ rows = 0
     \/ prog = "loc" /\ table \in Tables /\ pc = "l_get_table" /\ rows = 0
  /\ attempt = 0
  /\ colIdx = 0
  /\ raw_stream = 0
  /\ handles = <<>>
  /\ streamed = <<>>
  /\ written = 0
  /\ sio = <<>>
  /\ content_bytes = <<>>
  /\ blob = OldObject
  /\ exc = NoExc
  /\ result = "running"
  /\ via = "none"
  /\ tries = [stream |-> 0, upload |-> 0]
  /\ fails = [stream |-> 0, upload |-> 0]
  /\ sleeps = [stream |-> <<>>, upload |-> <<>>]
  /\ fellBack = FALSE
  /\ openFails = 0
  /\ Alone

\* the function raises e
Raise(e) ==
  /\ pc' = "done"
  /\ result' = "raised"
  /\ exc' = e

\* the function returns the gs:// URI
Return(t) ==
  /\ pc' = "done"
  /\ result' = "uri"
  /\ via' = t

\* raw_stream.close(): finalizes the upload of what was written; a handle
\* that is already closed is left alone; ok tells whether the call returns
NoClose(hs, h, ok) == hs

CloseHandle(hs, h, ok) ==
  IF h = 0 \/ hs[h] = "closed" THEN hs
  ELSE [hs EXCEPT ![h] = IF ok THEN "closed" ELSE "closefailed"]

Committed(hs, h, ok, old) ==
  IF h # 0 /\ hs[h] # "closed" /\ ok THEN streamed ELSE old

\* ============================================================= XML export
\* bq_to_gcs_xml.py, stream_table_to_gcs_binary_with_fallback

\* get_table inside the retry handler
XGetTableRetried ==
  /\ pc = "x_get_table"
  /\ \/ /\ pc' = "x_lookup_bucket"
        /\ UNCHANGED <<exc, result>>
     \/ /\ exc' = Exc("get_table", 0)
        /\ pc' = "x_except"
        /\ UNCHANGED result
  /\ UNCHANGED <<params, attempt, rows, colIdx, raw_stream, handles,
                 streamed, written, sio, content_bytes, blob, via, tries,
                 fails, sleeps, fellBack, openFails>>

\* line 76: bq_client.get_table(table_ref)
XGetTable ==
  /\ pc = "x_get_table"
  /\ \/ /\ pc' = "x_lookup_bucket"
        /\ UNCHANGED <<exc, result>>
     \/ Raise(Exc("get_table", 0))
  /\ UNCHANGED <<params, attempt, rows, colIdx, raw_stream, handles,
                 streamed, written, sio, content_bytes, blob, via, tries,
                 fails, sleeps, fellBack, openFails>>

\* lines 80-86: lookup_bucket, bucket.blob, attempt = 0
XLookupBucket ==
  /\ pc = "x_lookup_bucket"
  /\ \/ /\ pc' = "x_while"
        /\ attempt' = 0
        /\ UNCHANGED <<exc, result>>
     \/ /\ Raise(Exc("bucket", 0))
        /\ UNCHANGED attempt
  /\ UNCHANGED <<params, rows, colIdx, raw_stream, handles, streamed,
                 written, sio, content_bytes, blob, via, tries, fails, sleeps,
                 fellBack, openFails>>

\* lines 87-88: while attempt < retries: attempt += 1
XWhile ==
  /\ pc = "x_while"
  /\ IF attempt < retries
     THEN /\ attempt' = attempt + 1
          /\ tries' = Bump(tries, "stream")
          /\ exc' = NoExc
          /\ pc' = "x_list_rows"
     ELSE /\ pc' = "f_start"
          /\ UNCHANGED <<attempt, tries, exc>>
  /\ UNCHANGED <<params, rows, colIdx, raw_stream, handles, streamed,
                 written, sio, content_bytes, blob, result, via, fails, sleeps,
                 fellBack, openFails>>

\* line 93: rows = bq_client.list_rows(table_obj)
XListRowsResume ==
  /\ pc = "x_list_rows"
  /\ \/ /\ rows' = IF rows = 0 THEN 1 ELSE rows
        /\ pc' = "x_open"
        /\ UNCHANGED exc
     \/ /\ exc' = Exc("list_rows", attempt)
        /\ pc' = "x_except"
        /\ UNCHANGED rows
  /\ UNCHANGED <<params, attempt, colIdx, raw_stream, handles, streamed,
                 written, sio, content_bytes, blob, result, via, tries, fails,
                 sleeps, fellBack, openFails>>

XListRows ==
  /\ pc = "x_list_rows"
  /\ \/ /\ rows' = 1
        /\ pc' = "x_open"
        /\ UNCHANGED exc
     \/ /\ exc' = Exc("list_rows", attempt)
        /\ pc' = "x_except"
        /\ UNCHANGED rows
  /\ UNCHANGED <<params, attempt, colIdx, raw_stream, handles, streamed,
                 written, sio, content_bytes, blob, result, via, tries, fails,
                 sleeps, fellBack, openFails>>

\* the counter of line 105 carried over from the attempt before
XOpenKeepsCount ==
  /\ pc = "x_open"
  /\ \/ /\ handles' = Append(handles, "open")
        /\ raw_stream' = Len(handles) + 1
        /\ streamed' = <<>>
        /\ pc' = "x_header"
        /\ UNCHANGED <<exc, openFails, written>>
     \/ /\ raw_stream' = 0
        /\ openFails' = openFails + 1
        /\ exc' = Exc("open", attempt)
        /\ pc' = "x_except"
        /\ UNCHANGED <<handles, streamed, written>>
  /\ UNCHANGED <<params, attempt, rows, colIdx, sio, content_bytes, blob,
                 result, via, tries, fails, sleeps, fellBack>>

\* lines 96-105: raw_stream = blob.open("wb"); on any exception raw_stream is
\* None and RuntimeError is raised into the handler of line 146
XOpen ==
  /\ pc = "x_open"
  /\ \/ /\ handles' = Append(handles, "open")
        /\ raw_stream' = Len(handles) + 1
        /\ streamed' = <<>>
        /\ written' = 0
        /\ pc' = "x_header"
        /\ UNCHANGED <<exc, openFails>>
     \/ /\ raw_stream' = 0
        /\ openFails' = openFails + 1
        /\ exc' = Exc("open", attempt)
        /\ pc' = "x_except"
        /\ UNCHANGED <<handles, streamed, written>>
  /\ UNCHANGED <<params, attempt, rows, colIdx, sio, content_bytes, blob,
                 result, via, tries, fails, sleeps, fellBack>>

\* a raw_stream.write(...) of one chunk inside the try of line 106: either
\* the chunk is taken and control moves to next, or the write raises and
\* control moves to the finally of line 136
StreamWrite(chunk, next) ==
  \/ /\ streamed' = Append(streamed, chunk)
     /\ pc' = next
     /\ UNCHANGED exc
  \/ /\ exc' = Exc("write", attempt)
     /\ pc' = "x_finally"
     /\ UNCHANGED streamed

\* lines 108-110: the XML declaration and the root element
XWriteHeader ==
  /\ pc \in {"x_header", "x_root"}
  /\ IF pc = "x_header"
     THEN StreamWrite(XmlDecl, "x_root")
     ELSE StreamWrite(RootOpen, "x_for")
  /\ UNCHANGED <<params, attempt, rows, colIdx, raw_stream, handles,
                 written, sio, content_bytes, blob, result, via, tries, fails,
                 sleeps, fellBack, openFails>>

\* line 112: for row in rows (fetching the next row may raise)
XFor ==
  /\ pc = "x_for"
  /\ \/ /\ rows <= Len(table)
        /\ rows' = rows + 1
        /\ pc' = "x_row_open"
        /\ UNCHANGED exc
     \/ /\ rows > Len(table)
        /\ pc' = "x_footer"
        /\ UNCHANGED <<rows, exc>>
     \/ /\ exc' = Exc("fetch", attempt)
        /\ pc' = "x_finally"
        /\ UNCHANGED <<rows>>
  /\ UNCHANGED <<params, attempt, colIdx, raw_stream, handles, streamed,
                 written, sio, content_bytes, blob, result, via, tries, fails,
                 sleeps, fellBack, openFails>>

\* line 113: <Defaulter>
XRowOpen ==
  /\ pc = "x_row_open"
  /\ StreamWrite(RowOpen, "x_col")
  /\ colIdx' = IF pc' = "x_col" THEN 1 ELSE 0
  /\ UNCHANGED <<params, attempt, rows, raw_stream, handles, written,
                 sio, content_bytes, blob, result, via, tries, fails, sleeps,
                 fellBack, openFails>>

\* lines 114-127: one element per schema column
XCol ==
  /\ pc = "x_col"
  /\ StreamWrite(FieldChunk(table[rows - 1], schema_columns[colIdx]),
                 IF colIdx < Len(schema_columns) THEN "x_col" ELSE "x_row_close")
  /\ colIdx' = IF pc' = "x_col" THEN colIdx + 1 ELSE 0
  /\ UNCHANGED <<params, attempt, rows, raw_stream, handles, written,
                 sio, content_bytes, blob, result, via, tries, fails, sleeps,
                 fellBack, openFails>>

\* lines 129-130: </Defaulter>, written += 1
XRowClose ==
  /\ pc = "x_row_close"
  /\ StreamWrite(RowClose, "x_for")
  /\ written' = IF pc' = "x_for" THEN written + 1 ELSE written
  /\ UNCHANGED <<params, attempt, rows, colIdx, raw_stream, handles,
                 sio, content_bytes, blob, result, via, tries, fails, sleeps,
                 fellBack, openFails>>

\* line 134: </Defaulters>
XFooter ==
  /\ pc = "x_footer"
  /\ StreamWrite(RootClose, "x_finally")
  /\ UNCHANGED <<params, attempt, rows, colIdx, raw_stream, handles,
                 written, sio, content_bytes, blob, result, via, tries, fails,
                 sleeps, fellBack, openFails>>

\* lines 136-141: finally: try: raw_stream.close() except Exception: pass
XFinally ==
  /\ pc = "x_finally"
  /\ \E ok \in BOOLEAN :
       /\ handles' = CloseHandle(handles, raw_stream, ok)
       /\ blob' = Committed(handles, raw_stream, ok, blob)
  /\ pc' = IF exc = NoExc THEN "x_return" ELSE "x_except"
  /\ UNCHANGED <<params, attempt, rows, colIdx, raw_stream, streamed,
                 written, sio, content_bytes, exc, result, via, tries, fails,
                 sleeps, fellBack, openFails>>

\* the return of line 144 missing: control reaches the fallback tier
XReturnFallsThrough ==
  /\ pc = "x_return"
  /\ pc' = "f_start"
  /\ via' = "stream"
  /\ UNCHANGED <<params, attempt, rows, colIdx, raw_stream, handles,
                 streamed, written, sio, content_bytes, blob, exc, result,
                 tries, fails, sleeps, fellBack, openFails>>

\* lines 143-144: return gcs_uri
XReturn ==
  /\ pc = "x_return"
  /\ Return("stream")
  /\ UNCHANGED <<params, attempt, rows, colIdx, raw_stream, handles,
                 streamed, written, sio, content_bytes, blob, exc, tries,
                 fails, sleeps, fellBack, openFails>>

\* lines 146-153: except Exception: try: raw_stream.close() except: pass
XExcept ==
  /\ pc = "x_except"
  /\ fails' = Bump(fails, "stream")
  /\ \E ok \in BOOLEAN :
       /\ handles' = CloseHandle(handles, raw_stream, ok)
       /\ blob' = Committed(handles, raw_stream, ok, blob)
  /\ pc' = "x_check"
  /\ UNCHANGED <<params, attempt, rows, colIdx, raw_stream, streamed,
                 written, sio, content_bytes, exc, result, via, tries, sleeps,
                 fellBack, openFails>>

\* lines 155-161: break when attempt >= retries, else sleep backoff ** attempt
XCheck ==
  /\ pc = "x_check"
  /\ IF StreamExhausted(attempt, retries)
     THEN /\ pc' = "f_start"
          /\ UNCHANGED sleeps
     ELSE /\ sleeps' = [sleeps EXCEPT !.stream = Append(@, BackoffWait(backoff, attempt))]
          /\ pc' = "x_while"
  /\ UNCHANGED <<params, attempt, rows, colIdx, raw_stream, handles,
                 streamed, written, sio, content_bytes, blob, exc, result, via,
                 tries, fails, fellBack, openFails>>

\* the fallback buffer without the XML declaration
FStartNoDecl ==
  /\ pc = "f_start"
  /\ fellBack' = TRUE
  /\ sio' = <<RootOpen>>
  /\ written' = 0
  /\ exc' = NoExc
  /\ streamed' = <<>>
  /\ pc' = "f_list_rows"
  /\ UNCHANGED <<params, attempt, rows, colIdx, raw_stream, handles,
                 content_bytes, blob, result, via, tries, fails, sleeps,
                 openFails>>

\* lines 164-168: the fallback tier starts: sio, written = 0, header
FStart ==
  /\ pc = "f_start"
  /\ fellBack' = TRUE
  /\ sio' = <<XmlDecl, RootOpen>>
  /\ written' = 0
  /\ exc' = NoExc
  /\ streamed' = <<>>  \* no handle is touched from here on
  /\ pc' = "f_list_rows"
  /\ UNCHANGED <<params, attempt, rows, colIdx, raw_stream, handles,
                 content_bytes, blob, result, via, tries, fails, sleeps,
                 openFails>>

\* a failed list_rows of the fallback restarts the build
FListRowsRetried ==
  /\ pc = "f_list_rows"
  /\ \/ /\ rows' = 1
        /\ pc' = "f_for"
        /\ UNCHANGED <<exc, result>>
     \/ /\ exc' = Exc("list_rows", 0)
        /\ pc' = "f_start"
        /\ UNCHANGED <<rows, result>>
  /\ UNCHANGED <<params, attempt, colIdx, raw_stream, handles, streamed,
                 written, sio, content_bytes, blob, via, tries, fails, sleeps,
                 fellBack, openFails>>

\* line 171: rows = bq_client.list_rows(table_obj), outside any try
FListRows ==
  /\ pc = "f_list_rows"
  /\ \/ /\ rows' = 1
        /\ pc' = "f_for"
        /\ UNCHANGED <<exc, result>>
     \/ /\ Raise(Exc("list_rows", 0))
        /\ UNCHANGED rows
  /\ UNCHANGED <<params, attempt, colIdx, raw_stream, handles, streamed,
                 written, sio, content_bytes, blob, via, tries, fails, sleeps,
                 fellBack, openFails>>

\* the columns of a record in reverse schema order
RECURSIVE FieldsReversed(_, _)
FieldsReversed(r, i) ==
  IF i > Len(schema_columns) THEN <<>>
  ELSE FieldsReversed(r, i + 1) \o <<FieldChunk(r, schema_columns[i])>>

\* the lines of one record, in schema order
RECURSIVE Fields(_, _)
Fields(r, i) ==
  IF i > Len(schema_columns) THEN <<>>
  ELSE <<FieldChunk(r, schema_columns[i])>> \o Fields(r, i + 1)

\* the upload loop continuing with the counter of the streaming tier
FForKeepsAttempt ==
  /\ pc = "f_for"
  /\ \/ /\ rows <= Len(table)
        /\ rows' = rows + 1
        /\ sio' = sio \o <<RowOpen>> \o Fields(table[rows], 1) \o <<RowClose>>
        /\ written' = written + 1
        /\ UNCHANGED <<pc, exc, result, content_bytes, attempt>>
     \/ /\ rows > Len(table)
        /\ sio' = Append(sio, RootClose)
        /\ content_bytes' = sio'
        /\ pc' = "fu_while"
        /\ UNCHANGED <<rows, written, exc, result, attempt>>
     \/ /\ Raise(Exc("fetch", 0))
        /\ UNCHANGED <<rows, sio, written, content_bytes, attempt>>
  /\ UNCHANGED <<params, colIdx, raw_stream, handles, streamed, blob, via,
                 tries, fails, sleeps, fellBack, openFails>>

\* lines 172-188: one record into sio (fetching the next row may raise)
FFor ==
  /\ pc = "f_for"
  /\ \/ /\ rows <= Len(table)
        /\ rows' = rows + 1
        /\ sio' = sio \o <<RowOpen>> \o Fields(table[rows], 1) \o <<RowClose>>
        /\ written' = written + 1
        /\ UNCHANGED <<pc, exc, result, content_bytes, attempt>>
     \/ /\ rows > Len(table)
        /\ sio' = Append(sio, RootClose)
        /\ content_bytes' = sio'
        /\ attempt' = 0
        /\ pc' = "fu_while"
        /\ UNCHANGED <<rows, written, exc, result>>
     \/ /\ Raise(Exc("fetch", 0))
        /\ UNCHANGED <<rows, sio, written, content_bytes, attempt>>
  /\ UNCHANGED <<params, colIdx, raw_stream, handles, streamed, blob, via,
                 tries, fails, sleeps, fellBack, openFails>>

\* the raise of line 211 missing: leaving the loop returns None
FUWhileReturnsNone ==
  /\ pc = "fu_while"
  /\ IF attempt < retries
     THEN /\ attempt' = attempt + 1
          /\ tries' = Bump(tries, "upload")
          /\ pc' = "fu_upload"
          /\ UNCHANGED <<exc, result>>
     ELSE /\ pc' = "done"
          /\ result' = "none"
          /\ UNCHANGED <<attempt, tries, exc>>
  /\ UNCHANGED <<params, rows, colIdx, raw_stream, handles, streamed,
                 written, sio, content_bytes, blob, via, fails, sleeps,
                 fellBack, openFails>>

\* lines 196-197 and 211: while attempt < retries: attempt += 1; after the
\* loop raise RuntimeError
FUWhile ==
  /\ pc = "fu_while"
  /\ IF attempt < retries
     THEN /\ attempt' = attempt + 1
          /\ tries' = Bump(tries, "upload")
          /\ pc' = "fu_upload"
          /\ UNCHANGED <<exc, result>>
     ELSE /\ Raise(Exc("final", 0))
          /\ UNCHANGED <<attempt, tries>>
  /\ UNCHANGED <<params, rows, colIdx, raw_stream, handles, streamed,
                 written, sio, content_bytes, blob, via, fails, sleeps,
                 fellBack, openFails>>

\* lines 198-204: blob.upload_from_string(content_bytes); return gcs_uri
FUUpload ==
  /\ pc = "fu_upload"
  /\ \/ /\ blob' = content_bytes
        /\ Return("upload")
        /\ UNCHANGED <<exc, fails>>
     \/ /\ exc' = Exc("upload", attempt)
        /\ pc' = "fu_except"
        /\ UNCHANGED <<blob, result, via>>
  /\ UNCHANGED <<params, attempt, rows, colIdx, raw_stream, handles,
                 streamed, written, sio, content_bytes, tries, fails, sleeps,
                 fellBack, openFails>>

\* lines 205-209: raise when attempt >= retries, else sleep backoff ** attempt
FUExcept ==
  /\ pc = "fu_except"
  /\ fails' = Bump(fails, "upload")
  /\ IF UploadExhausted(attempt, retries)
     THEN /\ Raise(exc)
          /\ UNCHANGED sleeps
     ELSE /\ sleeps' = [sleeps EXCEPT !.upload = Append(@, BackoffWait(backoff, attempt))]
          /\ pc' = "fu_while"
          /\ UNCHANGED <<exc, result>>
  /\ UNCHANGED <<params, attempt, rows, colIdx, raw_stream, handles,
                 streamed, written, sio, content_bytes, blob, via, tries,
                 fellBack, openFails>>

\* ============================================================= CSV export
\* generatedata_in_gcs.py, stream_csv_to_gcs; rows_iter is the generator made
\* by main (line 175), consumed through the variable rows

\* lines 84-90: lookup_bucket, bucket.blob
CLookupBucket ==
  /\ pc = "c_lookup_bucket"
  /\ \/ /\ pc' = "c_open"
        /\ UNCHANGED <<exc, result>>
     \/ Raise(Exc("bucket", 0))
  /\ UNCHANGED <<params, attempt, rows, colIdx, raw_stream, handles,
                 streamed, written, sio, content_bytes, blob, via, tries,
                 fails, sleeps, fellBack, openFails>>

\* lines 93-99: raw_stream = blob.open("wb") once, before the loop; TypeError
\* gives None, any other exception leaves the function; attempt = 0
COpen ==
  /\ pc = "c_open"
  /\ \/ /\ handles' = Append(handles, "open")
        /\ raw_stream' = Len(handles) + 1
        /\ streamed' = <<>>
        /\ attempt' = 0
        /\ pc' = "c_while"
        /\ UNCHANGED <<exc, result, openFails>>
     \/ /\ raw_stream' = 0
        /\ openFails' = openFails + 1
        /\ pc' = "cf_start"
        /\ UNCHANGED <<handles, streamed, attempt, exc, result>>
     \/ /\ Raise(Exc("open", 0))
        /\ openFails' = openFails + 1
        /\ UNCHANGED <<handles, raw_stream, streamed, attempt>>
  /\ UNCHANGED <<params, rows, colIdx, written, sio, content_bytes, blob,
                 via, tries, fails, sleeps, fellBack>>

\* line 100: while attempt < retries
CWhile ==
  /\ pc = "c_while"
  /\ IF attempt < retries
     THEN /\ tries' = Bump(tries, "stream")
          /\ exc' = NoExc
          /\ pc' = "c_enter"
     ELSE /\ pc' = "cf_start"
          /\ UNCHANGED <<tries, exc>>
  /\ UNCHANGED <<params, attempt, rows, colIdx, raw_stream, handles,
                 streamed, written, sio, content_bytes, blob, result, via,
                 fails, sleeps, fellBack, openFails>>

\* lines 102-105: with raw_stream: with io.TextIOWrapper(raw_stream, ...);
\* entering a closed stream raises ValueError; a stream whose close() raised
\* may or may not count as closed
CEnter ==
  /\ pc = "c_enter"
  /\ \/ /\ handles[raw_stream] # "closed"
        /\ written' = 0
        /\ pc' = "c_header"
        /\ UNCHANGED exc
     \/ /\ handles[raw_stream] # "open"
        /\ exc' = Exc("closed_file", attempt + 1)
        /\ pc' = "c_except"
        /\ UNCHANGED written
  /\ UNCHANGED <<params, attempt, rows, colIdx, raw_stream, handles,
                 streamed, sio, content_bytes, blob, result, via, tries, fails,
                 sleeps, fellBack, openFails>>

\* a writer.writerow(...) or flush inside the with blocks: the line is taken
\* or the call raises and the with blocks are left
CsvWrite(line, next) ==
  \/ /\ streamed' = streamed \o line
     /\ pc' = next
     /\ UNCHANGED exc
  \/ /\ exc' = Exc("write", attempt + 1)
     /\ pc' = "c_exit"
     /\ UNCHANGED streamed

\* lines 107-108: the header row; csv.writer ends a row with \r\n and the
\* wrapper (newline='') passes it on
CHeader ==
  /\ pc = "c_header"
  /\ CsvWrite(<<CsvHeader("CRLF")>>, "c_for")
  /\ UNCHANGED <<params, attempt, rows, colIdx, raw_stream, handles,
                 written, sio, content_bytes, blob, result, via, tries, fails,
                 sleeps, fellBack, openFails>>

\* lines 110-112: for r in rows_iter: writer.writerow(...); written += 1
CFor ==
  /\ pc = "c_for"
  /\ IF rows <= Len(table)
     THEN /\ CsvWrite(<<CsvLine(table[rows], "CRLF")>>, "c_for")
          /\ rows' = rows + 1
          /\ written' = IF pc' = "c_for" THEN written + 1 ELSE written
     ELSE \* line 115: text_stream.flush()
          /\ CsvWrite(<<>>, "c_exit")
          /\ UNCHANGED <<rows, written>>
  /\ UNCHANGED <<params, attempt, colIdx, raw_stream, handles, sio,
                 content_bytes, blob, result, via, tries, fails, sleeps,
                 fellBack, openFails>>

\* leaving the with blocks of lines 102 and 104 closes raw_stream; an
\* exception of close() is raised to the handler of line 118
CExit ==
  /\ pc = "c_exit"
  /\ \E ok \in BOOLEAN :
       /\ handles' = CloseHandle(handles, raw_stream, ok)
       /\ blob' = Committed(handles, raw_stream, ok, blob)
       /\ exc' = IF ok THEN exc ELSE Exc("close", attempt + 1)
  /\ pc' = IF exc' = NoExc THEN "c_return" ELSE "c_except"
  /\ UNCHANGED <<params, attempt, rows, colIdx, raw_stream, streamed,
                 written, sio, content_bytes, result, via, tries, fails,
                 sleeps, fellBack, openFails>>

\* lines 116-117: return gcs_uri
CReturn ==
  /\ pc = "c_return"
  /\ Return("stream")
  /\ UNCHANGED <<params, attempt, rows, colIdx, raw_stream, handles,
                 streamed, written, sio, content_bytes, blob, exc, tries,
                 fails, sleeps, fellBack, openFails>>

\* the streaming tier gives up and control goes to the fallback tier
CExceptFallsBack ==
  /\ pc = "c_except"
  /\ attempt' = attempt + 1
  /\ fails' = Bump(fails, "stream")
  /\ IF attempt' >= retries
     THEN /\ pc' = "cf_start"
          /\ UNCHANGED <<sleeps, exc, result>>
     ELSE /\ sleeps' = [sleeps EXCEPT !.stream = Append(@, BackoffWait(backoff, attempt'))]
          /\ pc' = "c_while"
          /\ UNCHANGED <<exc, result>>
  /\ UNCHANGED <<params, rows, colIdx, raw_stream, handles, streamed,
                 written, sio, content_bytes, blob, via, tries, fellBack,
                 openFails>>

\* lines 118-125: attempt += 1; raise when attempt >= retries, else sleep
\* backoff ** attempt
CExcept ==
  /\ pc = "c_except"
  /\ attempt' = attempt + 1
  /\ fails' = Bump(fails, "stream")
  /\ IF attempt' >= retries
     THEN /\ Raise(exc)
          /\ UNCHANGED sleeps
     ELSE /\ sleeps' = [sleeps EXCEPT !.stream = Append(@, BackoffWait(backoff, attempt'))]
          /\ pc' = "c_while"
          /\ UNCHANGED <<exc, result>>
  /\ UNCHANGED <<params, rows, colIdx, raw_stream, handles, streamed,
                 written, sio, content_bytes, blob, via, tries, fellBack,
                 openFails>>

\* lines 128-133: the fallback tier starts: sio, header row ended by \n
CFStart ==
  /\ pc = "cf_start"
  /\ fellBack' = TRUE
  /\ sio' = <<CsvHeader("LF")>>
  /\ written' = 0
  /\ exc' = NoExc
  /\ pc' = "cf_for"
  /\ UNCHANGED <<params, attempt, rows, colIdx, raw_stream, handles,
                 streamed, content_bytes, blob, result, via, tries, fails,
                 sleeps, openFails>>

\* lines 134-140: the rest of rows_iter into sio; content; attempt = 0
CFFor ==
  /\ pc = "cf_for"
  /\ IF rows <= Len(table)
     THEN /\ sio' = Append(sio, CsvLine(table[rows], "LF"))
          /\ rows' = rows + 1
          /\ written' = written + 1
          /\ UNCHANGED <<pc, content_bytes, attempt>>
     ELSE /\ content_bytes' = sio
          /\ attempt' = 0
          /\ pc' = "cu_while"
          /\ UNCHANGED <<sio, rows, written>>
  /\ UNCHANGED <<params, colIdx, raw_stream, handles, streamed, blob, exc,
                 result, via, tries, fails, sleeps, fellBack, openFails>>

\* line 141: while attempt < retries; leaving the loop returns None
CUWhile ==
  /\ pc = "cu_while"
  /\ IF attempt < retries
     THEN /\ tries' = Bump(tries, "upload")
          /\ pc' = "cu_upload"
          /\ UNCHANGED result
     ELSE /\ pc' = "done"
          /\ result' = "none"
          /\ UNCHANGED tries
  /\ UNCHANGED <<params, attempt, rows, colIdx, raw_stream, handles,
                 streamed, written, sio, content_bytes, blob, exc, via, fails,
                 sleeps, fellBack, openFails>>

\* lines 142-145: blob.upload_from_string(content.encode("utf-8")); return
CUUpload ==
  /\ pc = "cu_upload"
  /\ \/ /\ blob' = content_bytes
        /\ Return("upload")
        /\ UNCHANGED exc
     \/ /\ exc' = Exc("upload", attempt + 1)
        /\ pc' = "cu_except"
        /\ UNCHANGED <<blob, result, via>>
  /\ UNCHANGED <<params, attempt, rows, colIdx, raw_stream, handles,
                 streamed, written, sio, content_bytes, tries, fails, sleeps,
                 fellBack, openFails>>

\* lines 146-153: attempt += 1; raise when attempt >= retries, else sleep
CUExcept ==
  /\ pc = "cu_except"
  /\ attempt' = attempt + 1
  /\ fails' = Bump(fails, "upload")
  /\ IF attempt' >= retries
     THEN /\ Raise(exc)
          /\ UNCHANGED sleeps
     ELSE /\ sleeps' = [sleeps EXCEPT !.upload = Append(@, BackoffWait(backoff, attempt'))]
          /\ pc' = "cu_while"
          /\ UNCHANGED <<exc, result>>
  /\ UNCHANGED <<params, rows, colIdx, raw_stream, handles, streamed,
                 written, sio, content_bytes, blob, via, tries, fellBack,
                 openFails>>

\* ======================================================= upload of a file
\* generatedata_in_local.py, upload_to_gcs

\* line 92: while attempt < retries; leaving the loop returns None
UWhile ==
  /\ pc = "u_while"
  /\ IF attempt < retries
     THEN /\ tries' = Bump(tries, "upload")
          /\ pc' = "u_upload"
          /\ UNCHANGED result
     ELSE /\ pc' = "done"
          /\ result' = "none"
          /\ UNCHANGED tries
  /\ UNCHANGED <<params, attempt, rows, colIdx, raw_stream, handles,
                 streamed, written, sio, content_bytes, blob, exc, via, fails,
                 sleeps, fellBack, openFails>>

\* lines 93-95: blob.upload_from_filename(local_path); return the URI
UUpload ==
  /\ pc = "u_upload"
  /\ \/ /\ blob' = LocalFile
        /\ Return("upload")
        /\ UNCHANGED exc
     \/ /\ exc' = Exc("upload", attempt + 1)
        /\ pc' = "u_except"
        /\ UNCHANGED <<blob, result, via>>
  /\ UNCHANGED <<params, attempt, rows, colIdx, raw_stream, handles,
                 streamed, written, sio, content_bytes, tries, fails, sleeps,
                 fellBack, openFails>>

\* lines 96-100: attempt += 1; raise when attempt >= retries, else sleep
UExcept ==
  /\ pc = "u_except"
  /\ attempt' = attempt + 1
  /\ fails' = Bump(fails, "upload")
  /\ IF attempt' >= retries
     THEN /\ Raise(exc)
          /\ UNCHANGED sleeps
     ELSE /\ sleeps' = [sleeps EXCEPT !.upload = Append(@, BackoffWait(backoff, attempt'))]
          /\ pc' = "u_while"
          /\ UNCHANGED <<exc, result>>
  /\ UNCHANGED <<params, rows, colIdx, raw_stream, handles, streamed,
                 written, sio, content_bytes, blob, via, tries, fellBack,
                 openFails>>

\* ===================================================== XML export to a file
\* bq_to_xml_local_gcs.py, stream_table_to_xml_file; streamed is what has
\* been written to the file f, handles holds the file handle

\* lines 104-108: bq.get_table(table_ref)
LGetTable ==
  /\ pc = "l_get_table"
  /\ \/ /\ pc' = "l_list_rows"
        /\ UNCHANGED <<exc, result>>
     \/ Raise(Exc("get_table", 0))
  /\ UNCHANGED <<params, attempt, rows, colIdx, raw_stream, handles,
                 streamed, written, sio, content_bytes, blob, via, tries,
                 fails, sleeps, fellBack, openFails>>

\* lines 109-114: rows = bq.list_rows(table_obj); cols; written = 0
LListRows ==
  /\ pc = "l_list_rows"
  /\ \/ /\ rows' = 1
        /\ written' = 0
        /\ pc' = "l_open"
        /\ UNCHANGED <<exc, result>>
     \/ /\ Raise(Exc("list_rows", 0))
        /\ UNCHANGED <<rows, written>>
  /\ UNCHANGED <<params, attempt, colIdx, raw_stream, handles, streamed,
                 sio, content_bytes, blob, via, tries, fails, sleeps,
                 fellBack, openFails>>

\* line 115: with open(out_path, "w", encoding="utf-8") as f
LOpen ==
  /\ pc = "l_open"
  /\ \/ /\ handles' = Append(handles, "open")
        /\ raw_stream' = Len(handles) + 1
        /\ streamed' = <<>>
        /\ pc' = "l_header"
        /\ UNCHANGED <<exc, result, openFails>>
     \/ /\ Raise(Exc("open", 0))
        /\ openFails' = openFails + 1
        /\ UNCHANGED <<handles, raw_stream, streamed>>
  /\ UNCHANGED <<params, attempt, rows, colIdx, written, sio, content_bytes,
                 blob, via, tries, fails, sleeps, fellBack>>

\* lines 116-146: one f.write(...): the declaration, the root element, and
\* per record the opening tag, one element per column and the closing tag
\* (written += 1), then the closing root; a write that raises leaves the
\* with block
LWrite ==
  /\ pc \in {"l_header", "l_root", "l_row_open", "l_col", "l_row_close",
             "l_footer"}
  /\ LET chunk == CASE pc = "l_header" -> XmlDecl
                    [] pc = "l_root" -> RootOpen
                    [] pc = "l_row_open" -> RowOpen
                    [] pc = "l_col" ->
                         FieldChunk(table[rows - 1], schema_columns[colIdx])
                    [] pc = "l_row_close" -> RowClose
                    [] pc = "l_footer" -> RootClose
         next == CASE pc = "l_header" -> "l_root"
                   [] pc = "l_root" -> "l_for"
                   [] pc = "l_row_open" -> "l_col"
                   [] pc = "l_col" ->
                        IF colIdx < Len(schema_columns) THEN "l_col"
                        ELSE "l_row_close"
                   [] pc = "l_row_close" -> "l_for"
                   [] pc = "l_footer" -> "l_exit"
     IN  \/ /\ streamed' = Append(streamed, chunk)
            /\ pc' = next
            /\ colIdx' = IF next = "l_col"
                          THEN (IF pc = "l_col" THEN colIdx + 1 ELSE 1)
                          ELSE 0
            /\ written' = IF pc = "l_row_close" THEN written + 1 ELSE written
            /\ UNCHANGED exc
         \/ /\ exc' = Exc("write", 0)
            /\ pc' = "l_exit"
            /\ colIdx' = 0
            /\ UNCHANGED <<streamed, written>>
  /\ UNCHANGED <<params, attempt, rows, raw_stream, handles, sio,
                 content_bytes, blob, result, via, tries, fails, sleeps,
                 fellBack, openFails>>

\* line 119: for row_idx, row in enumerate(rows) (fetching may raise)
LFor ==
  /\ pc = "l_for"
  /\ \/ /\ rows <= Len(table)
        /\ rows' = rows + 1
        /\ pc' = "l_row_open"
        /\ UNCHANGED exc
     \/ /\ rows > Len(table)
        /\ pc' = "l_footer"
        /\ UNCHANGED <<rows, exc>>
     \/ /\ exc' = Exc("fetch", 0)
        /\ pc' = "l_exit"
        /\ UNCHANGED rows
  /\ UNCHANGED <<params, attempt, colIdx, raw_stream, handles, streamed,
                 written, sio, content_bytes, blob, result, via, tries, fails,
                 sleeps, fellBack, openFails>>

\* line 115, leaving the with block: f.close(); a pending exception, or the
\* one of close(), leaves the function
LExit ==
  /\ pc = "l_exit"
  /\ \E ok \in BOOLEAN :
       /\ handles' = CloseHandle(handles, raw_stream, ok)
       /\ IF exc # NoExc THEN Raise(exc)
          ELSE IF ~ok THEN Raise(Exc("close", 0))
          ELSE pc' = "l_return" /\ UNCHANGED <<exc, result>>
  /\ UNCHANGED <<params, attempt, rows, colIdx, raw_stream, streamed,
                 written, sio, content_bytes, blob, via, tries, fails, sleeps,
                 fellBack, openFails>>

\* lines 148-149: return out_path
LReturn ==
  /\ pc = "l_return"
  /\ pc' = "done"
  /\ result' = "path"
  /\ via' = "file"
  /\ UNCHANGED <<params, attempt, rows, colIdx, raw_stream, handles,
                 streamed, written, sio, content_bytes, blob, exc, tries,
                 fails, sleeps, fellBack, openFails>>

\* ================================================================== system
Next ==
  \/ XGetTable \/ XLookupBucket \/ XWhile \/ XListRows \/ XOpen
  \/ XWriteHeader \/ XFor \/ XRowOpen \/ XCol \/ XRowClose \/ XFooter
  \/ XFinally \/ XReturn \/ XExcept \/ XCheck
  \/ FStart \/ FListRows \/ FFor \/ FUWhile \/ FUUpload \/ FUExcept
  \/ CLookupBucket \/ COpen \/ CWhile \/ CEnter \/ CHeader \/ CFor \/ CExit
  \/ CReturn \/ CExcept \/ CFStart \/ CFFor \/ CUWhile \/ CUUpload \/ CUExcept
  \/ UWhile \/ UUpload \/ UExcept
  \/ LGetTable \/ LListRows \/ LOpen \/ LWrite \/ LFor \/ LExit \/ LReturn

Spec == Init /\ [][Next]_vars

\* ------------------------------------------------- one run of the XML export
\* A call of stream_table_to_gcs_binary_with_fallback runs on one thread and
\* every statement it reaches is executed (time.sleep returns, a client call
\* returns or raises), so a step that is enabled is eventually taken.  --retries
\* is parsed with type=int: any integer, also 0 and negative ones; main
\* (line 248) passes backoff=2.
MinRetries == 0 - 1

InitLive ==
  /\ prog = "xml"
  /\ retries \in MinRetries..MaxRetries
  /\ backoff = DefaultBackoff
  /\ table \in Tables
  /\ pc = "x_get_table"
  /\ rows = 0
  /\ attempt = 0
  /\ colIdx = 0
  /\ raw_stream = 0
  /\ handles = <<>>
  /\ streamed = <<>>
  /\ written = 0
  /\ sio = <<>>
  /\ content_bytes = <<>>
  /\ blob = OldObject
  /\ exc = NoExc
  /\ result = "running"
  /\ via = "none"
  /\ tries = [stream |-> 0, upload |-> 0]
  /\ fails = [stream |-> 0, upload |-> 0]
  /\ sleeps = [stream |-> <<>>, upload |-> <<>>]
  /\ fellBack = FALSE
  /\ openFails = 0
  /\ Alone

NextXml ==
  \/ XGetTable \/ XLookupBucket \/ XWhile \/ XListRows \/ XOpen
  \/ XWriteHeader \/ XFor \/ XRowOpen \/ XCol \/ XRowClose \/ XFooter
  \/ XFinally \/ XReturn \/ XExcept \/ XCheck
  \/ FStart \/ FListRows \/ FFor \/ FUWhile \/ FUUpload \/ FUExcept

LiveSpec == InitLive /\ [][NextXml]_vars /\ WF_vars(NextXml)

\* ======================================================= the entry points
\* main of bq_to_xml_local_gcs.py (prog "loc") and of bq_to_gcs_xml.py (prog
\* "xml"); args.project tells whether --project or the default credentials
\* give a project, args.upload and args.bucket whether the options are
\* given.  The callee runs between pc = its first label and pc = "done".
InitCli ==
  /\ prog \in {"loc", "xml"}
  /\ args \in [project : BOOLEAN, upload : BOOLEAN, bucket : BOOLEAN]
  /\ retries \in (IF prog = "xml" THEN 0..MaxRetries ELSE {DefaultRetries})
  /\ backoff = DefaultBackoff
  /\ table \in Tables
  /\ mpc = "m_start"
  /\ pc = "idle"
  /\ status = NotExited
  /\ stderr = <<>>
  /\ rows = 0
  /\ attempt = 0
  /\ colIdx = 0
  /\ raw_stream = 0
  /\ handles = <<>>
  /\ streamed = <<>>
  /\ written = 0
  /\ sio = <<>>
  /\ content_bytes = <<>>
  /\ blob = OldObject
  /\ exc = NoExc
  /\ result = "running"
  /\ via = "none"
  /\ tries = [stream |-> 0, upload |-> 0]
  /\ fails = [stream |-> 0, upload |-> 0]
  /\ sleeps = [stream |-> <<>>, upload |-> <<>>]
  /\ fellBack = FALSE
  /\ openFails = 0
  /\ bq = NoBq
  /\ start_date = NoDate
  /\ months = 0
  /\ end_date = NoDate

\* sys.exit(code) after printing msg to stderr
Exit(msg, code) ==
  /\ stderr' = Append(stderr, msg)
  /\ status' = code
  /\ mpc' = "exit"

\* bq_to_xml_local_gcs.py lines 197-218: no project exits 3, else
\* stream_table_to_xml_file is called
LocMainStart ==
  /\ mpc = "m_start"
  /\ prog = "loc"
  /\ IF ~args.project
     THEN /\ Exit("No GCP project", 3)
          /\ UNCHANGED pc
     ELSE /\ mpc' = "m_export"
          /\ pc' = "l_get_table"
          /\ UNCHANGED <<status, stderr>>
  /\ UNCHANGED <<prog, retries, backoff, table, attempt, rows, colIdx,
                 raw_stream, handles, streamed, written, sio, content_bytes,
                 blob, exc, result, via, tries, fails, sleeps, fellBack,
                 openFails, args, bq, start_date, months, end_date>>

\* the sys.exit(1) of line 222 missing: after a failed export main goes on
LocMainExportedGoesOn ==
  /\ mpc = "m_export"
  /\ prog = "loc"
  /\ pc = "done"
  /\ IF result = "raised"
     THEN /\ stderr' = Append(stderr, "Failed to export table to XML")
          /\ mpc' = "m_upload"
          /\ pc' = "uf_lookup"
          /\ result' = "running"
          /\ tries' = Bump(tries, "upload")
          /\ UNCHANGED status
     ELSE IF ~args.upload
     THEN /\ status' = 0
          /\ mpc' = "exit"
          /\ UNCHANGED <<stderr, pc, result, tries>>
     ELSE IF ~args.bucket
     THEN /\ Exit("--upload requires --bucket", 4)
          /\ UNCHANGED <<pc, result, tries>>
     ELSE /\ mpc' = "m_upload"
          /\ pc' = "uf_lookup"
          /\ result' = "running"
          /\ tries' = Bump(tries, "upload")
          /\ UNCHANGED <<status, stderr>>
  /\ UNCHANGED <<prog, retries, backoff, table, attempt, rows, colIdx,
                 raw_stream, handles, streamed, written, sio, content_bytes,
                 blob, exc, via, fails, sleeps, fellBack, openFails, args,
                 bq, start_date, months, end_date>>

\* bq_to_xml_local_gcs.py lines 217-231: a failed export exits 1; without
\* --upload main returns; --upload without --bucket exits 4; else
\* upload_file_to_gcs is called
LocMainExported ==
  /\ mpc = "m_export"
  /\ prog = "loc"
  /\ pc = "done"
  /\ IF result = "raised"
     THEN /\ Exit("Failed to export table to XML", 1)
          /\ UNCHANGED <<pc, result, tries>>
     ELSE IF ~args.upload
     THEN /\ status' = 0
          /\ mpc' = "exit"
          /\ UNCHANGED <<stderr, pc, result, tries>>
     ELSE IF ~args.bucket
     THEN /\ Exit("--upload requires --bucket", 4)
          /\ UNCHANGED <<pc, result, tries>>
     ELSE /\ mpc' = "m_upload"
          /\ pc' = "uf_lookup"
          /\ result' = "running"
          /\ tries' = Bump(tries, "upload")
          /\ UNCHANGED <<status, stderr>>
  /\ UNCHANGED <<prog, retries, backoff, table, attempt, rows, colIdx,
                 raw_stream, handles, streamed, written, sio, content_bytes,
                 blob, exc, via, fails, sleeps, fellBack, openFails, args,
                 bq, start_date, months, end_date>>

\* upload_file_to_gcs, the handler of lines 178-181: print and re-raise
UploadFileFailed(k) ==
  /\ stderr' = Append(stderr, "ERROR uploading to GCS")
  /\ Raise(Exc(k, 0))

\* lines 159-168: the storage client and lookup_bucket (None raises)
UFLookupBucket ==
  /\ pc = "uf_lookup"
  /\ \/ /\ pc' = "uf_upload"
        /\ UNCHANGED <<exc, result, stderr>>
     \/ UploadFileFailed("bucket")
  /\ UNCHANGED <<prog, retries, backoff, table, attempt, rows, colIdx,
                 raw_stream, handles, streamed, written, sio, content_bytes,
                 blob, via, tries, fails, sleeps, fellBack, openFails, args,
                 mpc, status, bq, start_date, months, end_date>>

\* lines 170-176: blob.upload_from_filename(local_path); return the URI
UFUpload ==
  /\ pc = "uf_upload"
  /\ \/ /\ blob' = streamed
        /\ Return("upload")
        /\ UNCHANGED <<exc, stderr>>
     \/ /\ UploadFileFailed("upload")
        /\ UNCHANGED <<blob, via>>
  /\ UNCHANGED <<prog, retries, backoff, table, attempt, rows, colIdx,
                 raw_stream, handles, streamed, written, sio, content_bytes,
                 tries, fails, sleeps, fellBack, openFails, args, mpc,
                 status, bq, start_date, months, end_date>>

\* bq_to_xml_local_gcs.py lines 231-236: upload failure exits 2
LocMainUploaded ==
  /\ mpc = "m_upload"
  /\ prog = "loc"
  /\ pc = "done"
  /\ IF result = "uri"
     THEN /\ status' = 0
          /\ mpc' = "exit"
          /\ UNCHANGED stderr
     ELSE Exit("Upload failed", 2)
  /\ UNCHANGED <<prog, retries, backoff, table, pc, attempt, rows, colIdx,
                 raw_stream, handles, streamed, written, sio, content_bytes,
                 blob, exc, result, via, tries, fails, sleeps, fellBack,
                 openFails, args, bq, start_date, months, end_date>>

\* bq_to_gcs_xml.py lines 226-249: no project exits 2; --upload without
\* --bucket exits 3; with --upload the export function is called; without
\* it main prints a note and returns
XmlMainStart ==
  /\ mpc = "m_start"
  /\ prog = "xml"
  /\ IF ~args.project
     THEN /\ Exit("no GCP project", 2)
          /\ UNCHANGED pc
     ELSE IF args.upload /\ ~args.bucket
     THEN /\ Exit("--upload requires --bucket", 3)
          /\ UNCHANGED pc
     ELSE IF args.upload
     THEN /\ mpc' = "m_export"
          /\ pc' = "x_get_table"
          /\ UNCHANGED <<status, stderr>>
     ELSE /\ status' = 0
          /\ mpc' = "exit"
          /\ UNCHANGED <<pc, stderr>>
  /\ UNCHANGED <<prog, retries, backoff, table, attempt, rows, colIdx,
                 raw_stream, handles, streamed, written, sio, content_bytes,
                 blob, exc, result, via, tries, fails, sleeps, fellBack,
                 openFails, args, bq, start_date, months, end_date>>

\* bq_to_gcs_xml.py lines 245-250: the URI is printed; an exception of the
\* export is not caught, the interpreter prints it and exits 1
XmlMainReturned ==
  /\ mpc = "m_export"
  /\ prog = "xml"
  /\ pc = "done"
  /\ IF result = "uri"
     THEN /\ status' = 0
          /\ mpc' = "exit"
          /\ UNCHANGED stderr
     ELSE Exit("Traceback", 1)
  /\ UNCHANGED <<prog, retries, backoff, table, pc, attempt, rows, colIdx,
                 raw_stream, handles, streamed, written, sio, content_bytes,
                 blob, exc, result, via, tries, fails, sleeps, fellBack,
                 openFails, args, bq, start_date, months, end_date>>

NextCli ==
  \/ LocMainStart \/ LGetTable \/ LListRows \/ LOpen \/ LWrite \/ LFor
  \/ LExit \/ LReturn \/ LocMainExported \/ UFLookupBucket \/ UFUpload
  \/ LocMainUploaded
  \/ XmlMainStart \/ NextXml \/ XmlMainReturned

CliSpec == InitCli /\ [][NextCli]_vars

\* ================================================================ add_months
\* generatedata_in_gcs.py lines 29-36 (generatedata_in_local.py lines 27-34
\* is the same function)
MaxMonths == 13

\* datetime.MINYEAR and datetime.MAXYEAR of the standard library
MINYEAR == 1

MAXYEAR == 9999

Date(y, m, d) == [year |-> y, month |-> m, day |-> d]

ValueError == [year |-> 0 - 1, month |-> 0, day |-> 0]

\* the calendar of the datetime class: days of month m of year y
DaysInMonth(y, m) ==
  IF m = 2
  THEN (IF y % 400 = 0 \/ (y % 4 = 0 /\ y % 100 # 0) THEN 29 ELSE 28)
  ELSE IF m \in {4, 6, 9, 11} THEN 30 ELSE 31

\* datetime(year, month, day): raises ValueError outside the calendar
datetime(y, m, d) ==
  IF /\ y >= MINYEAR /\ y <= MAXYEAR
     /\ m >= 1 /\ m <= 12
     /\ d >= 1 /\ d <= DaysInMonth(y, m)
  THEN Date(y, m, d)
  ELSE ValueError

\* February has 29 days in every fourth year
add_monthsJulian(sd, n) ==
  LET year  == sd.year + ((sd.month - 1 + n) \div 12)
      month == ((sd.month - 1 + n) % 12) + 1
      mdays == <<31, IF year % 4 = 0 THEN 29 ELSE 28,
                 31, 30, 31, 30, 31, 31, 30, 31, 30, 31>>
      day   == IF sd.day < mdays[month] THEN sd.day ELSE mdays[month]
  IN  datetime(year, month, day)

\* lines 29-36; // and % are floor division and its remainder, as \div and %
add_months(sd, n) ==
  LET year  == sd.year + ((sd.month - 1 + n) \div 12)
      month == ((sd.month - 1 + n) % 12) + 1
      mdays == <<31,
                 IF year % 4 = 0 /\ (year % 100 # 0 \/ year % 400 = 0)
                 THEN 29 ELSE 28,
                 31, 30, 31, 30, 31, 31, 30, 31, 30, 31>>
      day   == IF sd.day < mdays[month] THEN sd.day ELSE mdays[month]
  IN  datetime(year, month, day)

\* start years whose targets meet a common year, leap years, the century
\* years 1900, 2000 and 2100, and the last year of the calendar
StartYears == {1899, 1999, 2023, 2024, 2099, MAXYEAR}

\* every day of the start years
StartDates ==
  { sd \in { Date(y, m, d) : y \in StartYears, m \in 1..12, d \in 1..31 } :
      datetime(sd.year, sd.month, sd.day) = sd }

InitDate ==
  /\ prog = "date"
  /\ start_date \in StartDates
  /\ months \in 0..MaxMonths
  /\ end_date = NoDate
  /\ pc = "d_call"
  /\ retries = DefaultRetries
  /\ backoff = DefaultBackoff
  /\ table = <<>>
  /\ rows = 0
  /\ attempt = 0
  /\ colIdx = 0
  /\ raw_stream = 0
  /\ handles = <<>>
  /\ streamed = <<>>
  /\ written = 0
  /\ sio = <<>>
  /\ content_bytes = <<>>
  /\ blob = OldObject
  /\ exc = NoExc
  /\ result = "running"
  /\ via = "none"
  /\ tries = [stream |-> 0, upload |-> 0]
  /\ fails = [stream |-> 0, upload |-> 0]
  /\ sleeps = [stream |-> <<>>, upload |-> <<>>]
  /\ fellBack = FALSE
  /\ openFails = 0
  /\ args = NoArgs
  /\ mpc = "none"
  /\ status = NotExited
  /\ stderr = <<>>
  /\ bq = NoBq

\* end_date = add_months(start_date, instalments), line 60
AddMonths ==
  /\ pc = "d_call"
  /\ LET d == add_months(start_date, months)
     IN  IF d = ValueError
         THEN /\ Raise(Exc("ValueError", 0))
              /\ UNCHANGED end_date
         ELSE /\ end_date' = d
              /\ pc' = "done"
              /\ result' = "date"
              /\ UNCHANGED exc
  /\ UNCHANGED <<prog, retries, backoff, table, attempt, rows, colIdx,
                 raw_stream, handles, streamed, written, sio, content_bytes,
                 blob, via, tries, fails, sleeps, fellBack, openFails, args,
                 mpc, status, stderr, bq, start_date, months>>

NextDate == AddMonths

DateSpec == InitDate /\ [][NextDate]_vars

\* ============================================================ load2bigquery
\* load2bigquery.py, main with ensure_dataset and load_csv_from_gcs.  bq holds
\* the dataset (and what it was before the run), the number of datasets
\* created, whether ensure_dataset returned, the number of load jobs
\* started and the rows of the destination table; table is the CSV at
\* gcs_uri.
Locations == {"US", "EU"}

WriteDispositions == {"WRITE_TRUNCATE", "WRITE_APPEND", "WRITE_EMPTY"}

Dataset(l) == [exists |-> TRUE, location |-> l]

InitLoad ==
  /\ prog = "load"
  /\ args \in [location : Locations, write_disposition : WriteDispositions]
  /\ \E ds \in {NoDataset} \cup { Dataset(l) : l \in Locations },
        n \in 0..MaxRows :
       bq = [dataset |-> ds, was |-> ds, created |-> 0, ensured |-> FALSE,
             jobs |-> 0, num_rows |-> n]
  /\ table \in { generate_loans_rows(n) : n \in 0..MaxRows }
  /\ mpc = "m_ensure"
  /\ pc = "idle"
  /\ status = NotExited
  /\ stderr = <<>>
  /\ retries = DefaultRetries
  /\ backoff = DefaultBackoff
  /\ rows = 0
  /\ attempt = 0
  /\ colIdx = 0
  /\ raw_stream = 0
  /\ handles = <<>>
  /\ streamed = <<>>
  /\ written = 0
  /\ sio = <<>>
  /\ content_bytes = <<>>
  /\ blob = OldObject
  /\ exc = NoExc
  /\ result = "running"
  /\ via = "none"
  /\ tries = [stream |-> 0, upload |-> 0]
  /\ fails = [stream |-> 0, upload |-> 0]
  /\ sleeps = [stream |-> <<>>, upload |-> <<>>]
  /\ fellBack = FALSE
  /\ openFails = 0
  /\ start_date = NoDate
  /\ months = 0
  /\ end_date = NoDate

\* the handler except Conflict of line 48 missing
ensure_datasetConflictRaises ==
  /\ mpc = "m_ensure"
  /\ \/ /\ ~bq.dataset.exists
        /\ bq' = [bq EXCEPT !.dataset = Dataset(args.location),
                            !.created = @ + 1,
                            !.ensured = TRUE]
        /\ mpc' = "m_load"
        /\ UNCHANGED <<exc, status, stderr>>
     \/ /\ bq.dataset.exists
        /\ exc' = Exc("Conflict", 0)
        /\ Exit("Failed to ensure dataset", 2)
        /\ UNCHANGED bq
     \/ /\ exc' = Exc("other", 0)
        /\ Exit("Failed to ensure dataset", 2)
        /\ UNCHANGED bq
  /\ UNCHANGED <<prog, retries, backoff, table, pc, attempt, rows, colIdx,
                 raw_stream, handles, streamed, written, sio, content_bytes,
                 blob, result, via, tries, fails, sleeps, fellBack,
                 openFails, args, start_date, months, end_date>>

\* lines 99-103 with ensure_dataset, lines 41-49: create_dataset creates the
\* dataset, or raises Conflict when it exists (caught, line 48), or raises
\* another error, which main reports and exits 2
ensure_dataset ==
  /\ mpc = "m_ensure"
  /\ \/ /\ ~bq.dataset.exists
        /\ bq' = [bq EXCEPT !.dataset = Dataset(args.location),
                            !.created = @ + 1,
                            !.ensured = TRUE]
        /\ mpc' = "m_load"
        /\ UNCHANGED <<exc, status, stderr>>
     \/ /\ bq.dataset.exists
        /\ bq' = [bq EXCEPT !.ensured = TRUE]
        /\ mpc' = "m_load"
        /\ UNCHANGED <<exc, status, stderr>>
     \/ /\ exc' = Exc("other", 0)
        /\ Exit("Failed to ensure dataset", 2)
        /\ UNCHANGED bq
  /\ UNCHANGED <<prog, retries, backoff, table, pc, attempt, rows, colIdx,
                 raw_stream, handles, streamed, written, sio, content_bytes,
                 blob, result, via, tries, fails, sleeps, fellBack,
                 openFails, args, start_date, months, end_date>>

\* lines 108-114: NotFound exits 3, any other exception exits 4
LoadFailed(k) ==
  /\ exc' = Exc(k, 0)
  /\ pc' = "done"
  /\ IF k = "NotFound"
     THEN Exit("Resource not found error", 3)
     ELSE Exit("Load job failed", 4)

\* lines 106-107 and 58-70: client.load_table_from_uri starts the job
LoadStart ==
  /\ mpc = "m_load"
  /\ pc = "idle"
  /\ \/ /\ bq' = [bq EXCEPT !.jobs = @ + 1]
        /\ pc' = "ld_result"
        /\ UNCHANGED <<exc, status, stderr, mpc>>
     \/ \E k \in {"NotFound", "other"} :
          LoadFailed(k) /\ UNCHANGED bq
  /\ UNCHANGED <<prog, retries, backoff, table, attempt, rows, colIdx,
                 raw_stream, handles, streamed, written, sio, content_bytes,
                 blob, result, via, tries, fails, sleeps, fellBack,
                 openFails, args, start_date, months, end_date>>

\* line 71: load_job.result(); the job writes the rows of the CSV as the
\* write disposition says, WRITE_EMPTY failing on a table that has rows
LoadResult ==
  /\ mpc = "m_load"
  /\ pc = "ld_result"
  /\ \/ /\ args.write_disposition = "WRITE_EMPTY" => bq.num_rows = 0
        /\ bq' = [bq EXCEPT !.num_rows =
                     IF args.write_disposition = "WRITE_APPEND"
                     THEN @ + Len(table) ELSE Len(table)]
        /\ pc' = "ld_get_table"
        /\ UNCHANGED <<exc, status, stderr, mpc>>
     \/ \E k \in {"NotFound", "other"} :
          LoadFailed(k) /\ UNCHANGED bq
  /\ UNCHANGED <<prog, retries, backoff, table, attempt, rows, colIdx,
                 raw_stream, handles, streamed, written, sio, content_bytes,
                 blob, result, via, tries, fails, sleeps, fellBack,
                 openFails, args, start_date, months, end_date>>

\* lines 72-73: client.get_table(dest_table_id), print the loaded rows
LoadGetTable ==
  /\ mpc = "m_load"
  /\ pc = "ld_get_table"
  /\ \/ /\ pc' = "done"
        /\ mpc' = "m_end"
        /\ UNCHANGED <<exc, status, stderr>>
     \/ \E k \in {"NotFound", "other"} : LoadFailed(k)
  /\ UNCHANGED <<prog, retries, backoff, table, attempt, rows, colIdx,
                 raw_stream, handles, streamed, written, sio, content_bytes,
                 blob, result, via, tries, fails, sleeps, fellBack,
                 openFails, args, bq, start_date, months, end_date>>

\* line 116: print("Load completed successfully.") and main returns
LoadCompleted ==
  /\ mpc = "m_end"
  /\ mpc' = "exit"
  /\ status' = 0
  /\ UNCHANGED <<prog, retries, backoff, table, pc, attempt, rows, colIdx,
                 raw_stream, handles, streamed, written, sio, content_bytes,
                 blob, exc, result, via, tries, fails, sleeps, fellBack,
                 openFails, args, stderr, bq, start_date, months, end_date>>

NextLoad ==
  ensure_dataset \/ LoadStart \/ LoadResult \/ LoadGetTable \/ LoadCompleted

LoadSpec == InitLoad /\ [][NextLoad]_vars

\* ============================================================== serializer
\* The record serializer of bq_to_gcs_xml.py lines 112-134 (the same text as
\* lines 172-192 and as bq_to_xml_local_gcs.py lines 119-146) applied, with
\* no I/O failure, to tables whose cells range over strings of reserved
\* characters, and to the three records of the scenario.

Alphabet == {"<", ">", "&", "'", "\"", ";", "l", "t"}

Strings == SeqsUpTo(Alphabet, MaxStrLen)

ScenarioColumns == <<"id", "amount", "status">>

ScenarioTable ==
  << [id |-> Str(<<"L", "0", "0", "0", "0", "0", "1">>),
      amount |-> Str(<<"1", "0", "0", "0", ".", "5">>),
      status |-> None],
     [id |-> Str(<<"L", "0", "0", "0", "0", "0", "2">>),
      amount |-> Str(<<"2", "0", "0", "0">>),
      status |-> Str(<<"A", "c", "t", "i", "v", "e">>)],
     [id |-> Str(<<"L", "0", "0", "0", "0", "0", "3">>),
      amount |-> None,
      status |-> Str(<<"C", "l", "o", "s", "e", "d">>)] >>

SerTables ==
  {ScenarioTable} \cup
  { << [id |-> Str(x), amount |-> None, status |-> Str(x)] >> : x \in Strings }

InitSer ==
  /\ prog = "ser"
  /\ retries = DefaultRetries
  /\ backoff = DefaultBackoff
  /\ table \in SerTables
  /\ pc = "s_for"
  /\ rows = 1
  /\ attempt = 0
  /\ colIdx = 0
  /\ raw_stream = 0
  /\ handles = <<>>
  /\ streamed = <<>>
  /\ written = 0
  /\ sio = <<XmlDecl, RootOpen>>
  /\ content_bytes = <<>>
  /\ blob = OldObject
  /\ exc = NoExc
  /\ result = "running"
  /\ via = "none"
  /\ tries = [stream |-> 0, upload |-> 0]
  /\ fails = [stream |-> 0, upload |-> 0]
  /\ sleeps = [stream |-> <<>>, upload |-> <<>>]
  /\ fellBack = FALSE
  /\ openFails = 0
  /\ Alone

\* lines 112-113 and 134: for row in rows: <Defaulter>; after the last row
\* </Defaulters>
SerFor ==
  /\ pc = "s_for"
  /\ IF rows <= Len(table)
     THEN /\ sio' = Append(sio, RowOpen)
          /\ rows' = rows + 1
          /\ colIdx' = 1
          /\ pc' = "s_col"
          /\ UNCHANGED content_bytes
     ELSE /\ sio' = Append(sio, RootClose)
          /\ content_bytes' = sio'
          /\ pc' = "s_done"
          /\ UNCHANGED <<rows, colIdx>>
  /\ UNCHANGED <<params, attempt, raw_stream, handles, streamed, written,
                 blob, exc, result, via, tries, fails, sleeps, fellBack,
                 openFails>>

\* lines 114-127: the element of one column
SerCol ==
  /\ pc = "s_col"
  /\ sio' = Append(sio, FieldChunk(table[rows - 1], ScenarioColumns[colIdx]))
  /\ IF colIdx < Len(ScenarioColumns)
     THEN colIdx' = colIdx + 1 /\ pc' = "s_col"
     ELSE colIdx' = 0 /\ pc' = "s_row_close"
  /\ UNCHANGED <<params, attempt, rows, raw_stream, handles, streamed,
                 written, content_bytes, blob, exc, result, via, tries, fails,
                 sleeps, fellBack, openFails>>

\* lines 129-130: </Defaulter>; written += 1
SerRowClose ==
  /\ pc = "s_row_close"
  /\ sio' = Append(sio, RowClose)
  /\ written' = written + 1
  /\ pc' = "s_for"
  /\ UNCHANGED <<params, attempt, rows, colIdx, raw_stream, handles,
                 streamed, content_bytes, blob, exc, result, via, tries, fails,
                 sleeps, fellBack, openFails>>

NextSer == SerFor \/ SerCol \/ SerRowClose

SerSpec == InitSer /\ [][NextSer]_vars

\* ============================================================== documents
\* the complete XML document of a table: declaration, root, one block per
\* record in source order, closing root
RECURSIVE Records(_, _)
Records(t, i) ==
  IF i > Len(t) THEN <<>>
  ELSE <<RowOpen>> \o Fields(t[i], 1) \o <<RowClose>> \o Records(t, i + 1)

XmlDocument(t) == <<XmlDecl, RootOpen>> \o Records(t, 1) \o <<RootClose>>

OpenHandles == { h \in 1..Len(handles) : handles[h] = "open" }

Min(a, b) == IF a < b THEN a ELSE b

\* ================================================================= claims

\* C1: XML export, retries >= 1: the fallback tier is entered only after
\* exactly `retries` streaming attempts were made and all of them failed, and
\* once `retries` attempts have failed the next thing that happens is the
\* fallback tier (no further attempt, no raise).
C1_StreamRetriesThenFallback ==
  (prog = "xml" /\ retries >= 1) =>
    /\ tries.stream <= retries
    /\ fellBack => (tries.stream = retries /\ fails.stream = retries)
    /\ fails.stream = retries =>
         (pc \in {"x_check", "f_start"} /\ result = "running") \/ fellBack

C1_Witness ==
  /\ prog = "xml" /\ retries >= 2
  /\ fellBack /\ fails.stream = retries /\ pc = "fu_upload"

\* C2: buffer tier of the XML and the CSV export, retries >= 1: when
\* `retries` upload_from_string calls have failed, exactly `retries` upload
\* attempts were made and the function has raised the exception of the last
\* upload attempt; it has not returned a URI.
C2_UploadRetriesThenRaise ==
  (prog \in {"xml", "csv"} /\ retries >= 1) =>
    /\ tries.upload <= retries
    /\ fails.upload = retries =>
         /\ tries.upload = retries
         /\ result = "raised"
         /\ exc = Exc("upload", retries)
         /\ via = "none"
    /\ (result = "raised" /\ exc.kind = "upload") => fails.upload = retries

C2_Witness ==
  /\ prog = "csv" /\ retries >= 2
  /\ result = "raised" /\ exc.kind = "upload" /\ tries.upload = retries

\* C3 (as claimed): XML export: once blob.open("wb") has failed, no further
\* streaming attempt is started and no backoff sleep of the streaming tier
\* happens.
C3_OpenFailureNotRetried ==
  [][(prog = "xml" /\ openFails >= 1) =>
       (tries'.stream = tries.stream /\ sleeps'.stream = sleeps.stream)]_vars

\* C4: XML export: every streaming attempt begins writing on a newly opened
\* handle with nothing written and a row iterator at the first row, the
\* header comes first, the fallback buffer grows from a fresh pass, and the
\* document of a successful streaming attempt and the fallback buffer are the
\* complete document of the table: every record exactly once, in order.
C4_FreshPassEveryAttempt ==
  prog = "xml" =>
    /\ pc = "x_header" =>
         /\ rows = 1 /\ streamed = <<>>
         /\ raw_stream = Len(handles) /\ handles[raw_stream] = "open"
    /\ streamed # <<>> => streamed[1] = XmlDecl
    /\ pc = "x_return" =>
         /\ streamed = XmlDocument(table)
         /\ written = Len(table)
         /\ Cardinality({ i \in 1..Len(streamed) : streamed[i] = RowOpen }) = Len(table)
    /\ pc = "f_for" => Len(sio) = 2 + (rows - 1) * (Len(schema_columns) + 2)
    /\ pc \in {"fu_while", "fu_upload", "fu_except"} =>
         content_bytes = XmlDocument(table)

C4_Witness ==
  /\ prog = "xml" /\ pc = "x_return"
  /\ fails.stream >= 1 /\ Len(handles) >= 2 /\ Len(table) >= 2

\* C5 (as claimed): CSV export: every streaming attempt, also one that
\* follows a failed attempt, enters the with block on a handle that is open
\* and has nothing written, with the rows at the first row; a streaming
\* attempt that succeeds has written the header and every row.
C5_CsvRetryIsFresh ==
  prog = "csv" =>
    /\ pc = "c_enter" =>
         (handles[raw_stream] = "open" /\ streamed = <<>> /\ rows = 1)
    /\ pc = "c_return" =>
         streamed = <<CsvHeader("CRLF")>> \o
                    [i \in 1..Len(table) |-> CsvLine(table[i], "CRLF")]

C7_StreamSuccessMeansClosed ==
  (prog = "xml" /\ result = "uri" /\ via = "stream") =>
    (handles[raw_stream] = "closed" /\ blob = XmlDocument(table))

\* C8 (as claimed): XML export: after a terminal failure (the last buffered
\* upload raised) the destination holds what it held before the run or a
\* complete document.
C8_NoPartialAfterTerminalFailure ==
  (prog = "xml" /\ result = "raised" /\ exc.kind = "upload") =>
    blob \in {OldObject, XmlDocument(table)}

\* C9: XML export: at most one handle has not had close() called on it, and
\* it is the current one; none is in that state when an attempt starts, when
\* the handler decides between retry and fallback, inside the fallback tier,
\* or when the function has returned or raised; an exception of close() never
\* becomes the exception being handled or raised.
C9_AtMostOneOpenHandle ==
  prog = "xml" =>
    /\ Cardinality(OpenHandles) <= 1
    /\ OpenHandles \subseteq {raw_stream}
    /\ pc \in {"x_while", "x_list_rows", "x_open", "x_return", "x_check",
               "f_start", "f_list_rows", "f_for", "fu_while", "fu_upload",
               "fu_except", "done"} => OpenHandles = {}
    /\ exc.kind # "close"
    /\ pc \in {"x_except", "x_check"} =>
         exc.kind \in {"list_rows", "open", "write", "fetch"} /\ exc.at = attempt

C9_Witness ==
  /\ prog = "xml" /\ pc = "x_header"
  /\ Len(handles) >= 2 /\ handles[1] = "closefailed"

\* C10: every retry loop: the waits of a tier are backoff^1, backoff^2, ...
\* one after each failed attempt a < retries and none after failed attempt
\* number `retries`; with retries = 3 and backoff = 2 a tier whose attempts
\* all failed slept 2 then 4.
SleepsOfTier(t) ==
  /\ \A i \in 1..Len(sleeps[t]) : sleeps[t][i] = Pow(backoff, i)
  /\ Len(sleeps[t]) =
       IF t = "stream" /\ pc = "x_check" THEN fails[t] - 1
       ELSE Min(fails[t], IF retries >= 1 THEN retries - 1 ELSE 0)
  /\ (retries = DefaultRetries /\ backoff = DefaultBackoff /\ fails[t] = retries
        /\ ~(t = "stream" /\ pc = "x_check"))
       => sleeps[t] = <<2, 4>>

C10_BackoffSchedule == SleepsOfTier("stream") /\ SleepsOfTier("upload")

C10_Witness ==
  /\ prog = "xml" /\ retries = DefaultRetries /\ backoff = DefaultBackoff
  /\ sleeps.stream = <<2, 4>> /\ sleeps.upload = <<2, 4>>
  /\ result = "raised"

\* C11: XML export: the counter of the upload loop starts at 0 whatever the
\* streaming tier used, so it counts upload attempts only; each tier makes at
\* most `retries` attempts and a run at most 2 * retries; when the run ends
\* with the last upload exception, both tiers made `retries` attempts.
C11_IndependentCounters ==
  prog = "xml" =>
    /\ tries.stream <= retries
    /\ tries.upload <= retries
    /\ tries.stream + tries.upload <= 2 * retries
    /\ pc \in {"fu_while", "fu_upload", "fu_except"} => attempt = tries.upload
    /\ (result = "raised" /\ exc.kind = "upload") =>
         (tries.stream = retries /\ tries.upload = retries)
    /\ (result = "raised" /\ exc.kind = "final") => retries <= 0

C11_Witness ==
  /\ prog = "xml" /\ retries >= 2
  /\ tries.stream = retries /\ tries.upload = retries
  /\ tries.stream + tries.upload = 2 * retries

\* C12: XML export: the fallback tier is entered only when every streaming
\* attempt that the loop allows was made and failed; a streaming attempt that
\* reached the return never leads to an in-memory build or an upload, so at
\* most one tier reports success and a fallback success leaves the buffer at
\* the destination.
C12_FallbackOnlyAfterStreamFailed ==
  prog = "xml" =>
    /\ (fellBack \/ pc = "f_start") =>
         /\ fails.stream = tries.stream
         /\ tries.stream = (IF retries >= 1 THEN retries ELSE 0)
         /\ via # "stream"
    /\ (pc = "x_return" \/ via = "stream") =>
         /\ ~fellBack /\ tries.upload = 0
         /\ sio = <<>> /\ content_bytes = <<>>
         /\ pc \in {"x_return", "done"}
    /\ via = "upload" => (fellBack /\ blob = content_bytes /\ result = "uri")

C12_Witness ==
  /\ prog = "xml" /\ via = "stream" /\ result = "uri"
  /\ fails.stream >= 1 /\ ~fellBack

\* C13: XML export: a failure while building the fallback buffer (list_rows
\* or fetching a row, outside any try) ends the function at once with that
\* error: the build is not restarted, no upload_from_string attempt and no
\* sleep of the upload tier happens.
C13_FallbackBuildFailureFatal ==
  (prog = "xml" /\ exc.kind \in {"list_rows", "fetch"} /\ exc.at = 0) =>
    /\ pc = "done" /\ result = "raised" /\ fellBack
    /\ tries.upload = 0 /\ sleeps.upload = <<>>
    /\ content_bytes = <<>> /\ via = "none"

C13_Witness ==
  /\ prog = "xml" /\ result = "raised"
  /\ exc = Exc("fetch", 0) /\ rows >= 2 /\ fellBack

\* C14: XML and CSV export: when get_table fails or lookup_bucket finds no
\* bucket the function has raised at once: no streaming attempt, no handle,
\* no row fetched, no sleep, no fallback, destination untouched.
C14_ResolutionFailureFatal ==
  (prog \in {"xml", "csv"} /\ exc.kind \in {"get_table", "bucket"}) =>
    /\ pc = "done" /\ result = "raised"
    /\ tries = [stream |-> 0, upload |-> 0]
    /\ fails = [stream |-> 0, upload |-> 0]
    /\ sleeps = [stream |-> <<>>, upload |-> <<>>]
    /\ handles = <<>> /\ ~fellBack /\ blob = OldObject
    /\ rows = (IF prog = "xml" THEN 0 ELSE 1)
    /\ sio = <<>> /\ streamed = <<>>

C14_Witness ==
  /\ prog = "xml" /\ result = "raised" /\ exc.kind = "bucket" /\ retries >= 1

\* C15 (as claimed): CSV export: an error raised by blob.open("wb") never
\* ends the export: the function does not raise the exception of open.
C15_CsvOpenErrorNeverAborts ==
  ~(prog = "csv" /\ result = "raised" /\ exc.kind = "open")

\* the document d holds, between one declaration with the root opening and
\* one root closing, one block per record of t in the order of t, and in
\* each block one element per column of cols in the order of cols, carrying
\* the text of that record's cell
WellFormedDocument(d, t, cols) ==
  LET n == Len(cols) + 2
  IN  /\ Len(d) = 3 + Len(t) * n
      /\ d[1] = XmlDecl /\ d[2] = RootOpen /\ d[Len(d)] = RootClose
      /\ Cardinality({ k \in 1..Len(d) : d[k] = XmlDecl }) = 1
      /\ Cardinality({ k \in 1..Len(d) : d[k] = RootClose }) = 1
      /\ Cardinality({ k \in 1..Len(d) : d[k] = RowOpen }) = Len(t)
      /\ \A i \in 1..Len(t) :
           LET b == 2 + (i - 1) * n
           IN  /\ d[b + 1] = RowOpen
               /\ d[b + n] = RowClose
               /\ \A j \in 1..Len(cols) :
                    /\ d[b + 1 + j].tag = "field"
                    /\ d[b + 1 + j].col = cols[j]
                    /\ d[b + 1 + j].text =
                         (IF t[i][cols[j]].isNone THEN <<>>
                          ELSE xml_escape(t[i][cols[j]].str))

\* C16: whatever attempts failed before, the document of a streaming attempt
\* that reached the return, the buffer of the fallback tier and the object it
\* uploads, and the file written by stream_table_to_xml_file hold exactly one
\* <Defaulter> block per record in source order with one element per schema
\* column in schema order, between one header and one footer.
C16_OneBlockPerRecordInOrder ==
  /\ (prog = "xml" /\ pc = "x_return") =>
       WellFormedDocument(streamed, table, schema_columns)
  /\ (prog = "xml" /\ pc \in {"fu_while", "fu_upload", "fu_except"}) =>
       WellFormedDocument(content_bytes, table, schema_columns)
  /\ (prog = "xml" /\ via = "upload") =>
       WellFormedDocument(blob, table, schema_columns)
  /\ (prog = "loc" /\ (pc = "l_return" \/ result = "path")) =>
       WellFormedDocument(streamed, table, schema_columns)

C16_Witness ==
  /\ prog = "xml" /\ via = "upload" /\ result = "uri"
  /\ fails.stream >= 1 /\ fails.upload >= 1
  /\ Len(table) >= 2 /\ table[1] # table[2]

\* position in the document of the element of column j of record i
SerIndex(i, j) == 2 + (i - 1) * (Len(ScenarioColumns) + 2) + 1 + j

\* C17: serializer: the element of every column of every record is present at
\* its place, and for a null cell its body is empty (not the text None); for
\* the three records of the scenario there are 3 <Defaulter> blocks, record
\* 1's <status> and record 3's <amount> are empty.
C17_NullIsEmptyElement ==
  prog = "ser" =>
    /\ \A i \in 1..Len(table) : \A j \in 1..Len(ScenarioColumns) :
         SerIndex(i, j) <= Len(sio) =>
           LET ch == sio[SerIndex(i, j)]
               v == table[i][ScenarioColumns[j]]
           IN  /\ ch.tag = "field"
               /\ ch.col = ScenarioColumns[j]
               /\ v.isNone => ch.text = <<>>
               /\ ch.text # <<"N", "o", "n", "e">>
               /\ ch.text # <<"n", "u", "l", "l">>
    /\ pc = "s_done" =>
         /\ Len(sio) = 3 + Len(table) * (Len(ScenarioColumns) + 2)
         /\ Cardinality({ k \in 1..Len(sio) : sio[k] = RowOpen }) = Len(table)
    /\ (pc = "s_done" /\ table = ScenarioTable) =>
         /\ Cardinality({ k \in 1..Len(sio) : sio[k] = RowOpen }) = 3
         /\ sio[SerIndex(1, 3)] = Chunk("field", "status", <<>>, "LF")
         /\ sio[SerIndex(3, 2)] = Chunk("field", "amount", <<>>, "LF")
         /\ sio[SerIndex(1, 2)].text = <<"1", "0", "0", "0", ".", "5">>

C17_Witness ==
  /\ prog = "ser" /\ pc = "s_done" /\ table = ScenarioTable
  /\ written = 3

\* what an XML parser makes of element text: the five predefined entity
\* references are replaced, any other & is an error (marked "!")
Entities ==
  { [ref |-> <<"&", "a", "m", "p", ";">>, ch |-> "&"],
    [ref |-> <<"&", "l", "t", ";">>, ch |-> "<"],
    [ref |-> <<"&", "g", "t", ";">>, ch |-> ">"],
    [ref |-> <<"&", "q", "u", "o", "t", ";">>, ch |-> "\""],
    [ref |-> <<"&", "a", "p", "o", "s", ";">>, ch |-> "'"] }

StartsWith(x, p) == Len(x) >= Len(p) /\ SubSeq(x, 1, Len(p)) = p

RECURSIVE xml_unescape(_)
xml_unescape(x) ==
  IF x = <<>> THEN <<>>
  ELSE IF Head(x) = "&"
       THEN IF \E e \in Entities : StartsWith(x, e.ref)
            THEN LET e == CHOOSE e \in Entities : StartsWith(x, e.ref)
                 IN  <<e.ch>> \o xml_unescape(SubSeq(x, Len(e.ref) + 1, Len(x)))
            ELSE <<"!">>
       ELSE <<Head(x)>> \o xml_unescape(Tail(x))

\* no raw < and no & that does not start an entity reference
NoRawMarkup(x) ==
  \A k \in 1..Len(x) :
    /\ x[k] # "<"
    /\ x[k] = "&" => \E e \in Entities : StartsWith(SubSeq(x, k, Len(x)), e.ref)

\* C18: serializer: for every string cell over the alphabet (<, >, &, both
\* quotes, and the letters that spell entity references) the text of its
\* element has no raw < or & and unescapes to the original string.
C18_EscapeRoundTrips ==
  prog = "ser" =>
    \A i \in 1..Len(table) : \A j \in 1..Len(ScenarioColumns) :
      (SerIndex(i, j) <= Len(sio) /\ ~table[i][ScenarioColumns[j]].isNone) =>
        LET out == sio[SerIndex(i, j)].text
        IN  /\ NoRawMarkup(out)
            /\ xml_unescape(out) = table[i][ScenarioColumns[j]].str

C18_Witness ==
  /\ prog = "ser" /\ pc = "s_done" /\ Len(table) = 1
  /\ table[1].id = Str(<<"<", "&", "\"">>)
  /\ sio[SerIndex(1, 1)].text =
       <<"&", "l", "t", ";", "&", "a", "m", "p", ";", "\"">>

\* C19: XML export: what a streaming attempt that reached the return wrote,
\* what a successful close committed, and what the fallback tier builds and
\* uploads are one and the same sequence of lines for the same table, line
\* ends included, whatever failed before.
C19_TiersWriteSameBytes ==
  prog = "xml" =>
    /\ pc = "x_return" => streamed = XmlDocument(table)
    /\ (via = "stream" /\ handles[raw_stream] = "closed") =>
         blob = XmlDocument(table)
    /\ via = "upload" =>
         (content_bytes = XmlDocument(table) /\ blob = XmlDocument(table))
    /\ \A k \in 1..Len(streamed) : streamed[k].eol = "LF"
    /\ \A k \in 1..Len(sio) : sio[k].eol = "LF"

C19_Witness ==
  /\ prog = "xml" /\ via = "upload" /\ result = "uri"
  /\ Len(table) >= 1 /\ Len(handles) >= 1 /\ blob = XmlDocument(table)

\* what the fallback tier of the CSV export uploads for the rows t
FallbackCsv(t) ==
  <<CsvHeader("LF")>> \o [i \in 1..Len(t) |-> CsvLine(t[i], "LF")]

\* C20 (as claimed): CSV export: what a first streaming attempt that
\* succeeded wrote equals what the fallback tier uploads for the same rows,
\* line terminators included.
C20_CsvTiersWriteSameBytes ==
  prog = "csv" =>
    /\ (pc = "c_return" /\ fails.stream = 0) => streamed = FallbackCsv(table)
    /\ via = "upload" => blob = FallbackCsv(table)

\* C21: XML export, any integer retries, any pattern of failing client
\* calls: the run eventually ends, and it ends either with the gs:// URI
\* returned by a tier whose write completed, or with an exception raised.
C21_Terminates ==
  <>(/\ pc = "done"
     /\ \/ result = "raised" /\ exc # NoExc
        \/ /\ result = "uri"
           /\ \/ via = "stream" /\ streamed = XmlDocument(table)
              \/ via = "upload" /\ blob = XmlDocument(table))

C21_Witness ==
  /\ prog = "xml"
  /\ pc = "done"
  /\ result = "raised"
  /\ retries >= 2
  /\ tries.stream = retries
  /\ tries.upload = retries
  /\ Len(table) = MaxRows

\* the number of record blocks closed in a document
CountRecords(d) == Cardinality({ i \in 1..Len(d) : d[i].tag = "/Defaulter" })

\* C24: XML export: every streaming attempt and the fallback build start
\* counting at 0, and the count reported on success is the number of records
\* the successful tier wrote, which is the number of records of the source,
\* whatever failed attempts wrote before.
C24_CountOfSuccessfulAttempt ==
  prog = "xml" =>
    /\ pc \in {"x_header", "f_list_rows"} => written = 0
    /\ pc \in {"x_header", "x_root", "x_for", "x_row_open", "x_col",
                "x_row_close", "x_footer"}
         => written = CountRecords(streamed)
    /\ pc = "x_return" \/ (pc = "done" /\ result = "uri" /\ via = "stream")
         => written = CountRecords(streamed) /\ written = Len(table)
    /\ pc = "done" /\ result = "uri" /\ via = "upload"
         => written = CountRecords(content_bytes) /\ written = Len(table)

C24_Witness ==
  /\ prog = "xml"
  /\ pc = "done"
  /\ result = "uri"
  /\ via = "stream"
  /\ fails.stream >= 1
  /\ written = MaxRows
  /\ \E h \in 1..Len(handles) : h # raw_stream

\* C23 (as claimed): CSV export and upload of a file, whatever retries is:
\* the function ends normally only by returning the gs:// URI, after a write
\* to the destination succeeded; it never ends normally with nothing
\* uploaded.
C23_ReturnMeansUploaded ==
  prog \in {"csv", "upl"} /\ pc = "done" /\ result # "raised"
    => /\ result = "uri"
       /\ via \in {"stream", "upload"}
       /\ blob # OldObject

MonthIndex(d) == d.year * 12 + d.month - 1

\* d is not earlier than e
NotEarlier(d, e) ==
  \/ d.year > e.year
  \/ d.year = e.year /\ d.month > e.month
  \/ d.year = e.year /\ d.month = e.month /\ d.day >= e.day

\* a day of the proleptic Gregorian calendar
ValidDate(d) ==
  /\ d.year >= 1
  /\ d.month \in 1..12
  /\ d.day >= 1
  /\ d.day <= (CASE d.month = 2 ->
                     (IF d.year % 4 # 0 THEN 28
                      ELSE IF d.year % 100 # 0 THEN 29
                      ELSE IF d.year % 400 # 0 THEN 28 ELSE 29)
                 [] d.month \in {4, 6, 9, 11} -> 30
                 [] OTHER -> 31)

\* d is on the day of sd, or on the last day of its month when that is
\* earlier
ClampedDay(sd, d) ==
  /\ d.day <= sd.day
  /\ d.day = sd.day \/ ~ValidDate([d EXCEPT !.day = @ + 1])

AddMonthsResult ==
  /\ result = "date"
  /\ ValidDate(end_date)
  /\ MonthIndex(end_date) = MonthIndex(start_date) + months
  /\ ClampedDay(start_date, end_date)
  /\ NotEarlier(end_date, start_date)

\* C27 (as claimed): add_months, every start date and every months >= 0: a
\* valid calendar date is returned, months months after the start's month,
\* on the start's day or the last day of a shorter target month, and not
\* earlier than the start.
C27_AddMonths ==
  prog = "date" /\ pc = "done" => AddMonthsResult

\* C27 (amended): the same for every start date and every months >= 0 whose
\* target month is not after December of year 9999.
C27_AddMonthsInCalendar ==
  prog = "date" /\ pc = "done"
    /\ MonthIndex(start_date) + months <= MAXYEAR * 12 + 11
    => AddMonthsResult

C27_Witness ==
  /\ prog = "date"
  /\ pc = "done"
  /\ start_date = Date(1899, 3, 31)
  /\ months = 11
  /\ end_date = Date(1900, 2, 28)

\* C26: load2bigquery main: a load job is started only when ensure_dataset
\* has returned; ensure_dataset returns with the dataset existing, created
\* at the requested location when there was none and left as it was (none
\* created) when it existed; an error of ensure_dataset exits 2 with no load
\* job started; a NotFound of the load exits 3 and any other error of the
\* load exits 4, each after ensure_dataset returned.
C26_LoadAfterEnsure ==
  prog = "load" =>
    /\ bq.jobs > 0 => bq.ensured
    /\ bq.ensured
         => /\ bq.dataset.exists
            /\ IF bq.was.exists
               THEN bq.dataset = bq.was /\ bq.created = 0
               ELSE bq.dataset = Dataset(args.location) /\ bq.created = 1
    /\ ~bq.ensured => bq.dataset = bq.was /\ bq.created = 0
    /\ status = 2
         => ~bq.ensured /\ bq.jobs = 0 /\ exc.kind = "other"
            /\ stderr = <<"Failed to ensure dataset">>
    /\ status = 3
         => bq.ensured /\ exc.kind = "NotFound"
            /\ stderr = <<"Resource not found error">>
    /\ status = 4
         => bq.ensured /\ exc.kind = "other"
            /\ stderr = <<"Load job failed">>
    /\ status = 0 => bq.ensured /\ bq.jobs = 1 /\ exc = NoExc
    /\ mpc = "exit" <=> status # NotExited

C26_Witness ==
  /\ prog = "load"
  /\ bq.was.exists
  /\ bq.was.location # args.location
  /\ bq.ensured
  /\ status = 3
  /\ bq.jobs = 1

\* stream_table_to_xml_file returned: the file holds the whole document and
\* is closed
Exported ==
  /\ handles = <<"closed">>
  /\ streamed = XmlDocument(table)
  /\ written = Len(table)

\* C22: main of bq_to_xml_local_gcs.py: upload_file_to_gcs is called only
\* after the export returned; a failed export exits 1 after its error was
\* printed, with no upload called and the destination untouched; a failed
\* upload exits 2 after its error was printed; status 0 is reached only
\* when no step failed; every non-zero exit has printed its cause.
C22_UploadAfterExport ==
  prog = "loc" /\ mpc # "none" =>
    /\ tries.upload > 0 \/ blob # OldObject => Exported
    /\ tries.upload <= 1
    /\ status = 1
         => /\ tries.upload = 0
            /\ blob = OldObject
            /\ exc # NoExc
            /\ stderr = <<"Failed to export table to XML">>
    /\ status = 2
         => /\ tries.upload = 1
            /\ exc.kind \in {"bucket", "upload"}
            /\ stderr = <<"ERROR uploading to GCS", "Upload failed">>
    /\ status = 0
         => /\ exc = NoExc
            /\ Exported
            /\ IF args.upload THEN blob = XmlDocument(table)
               ELSE blob = OldObject
    /\ mpc = "exit" /\ exc # NoExc => status \in {1, 2}
    /\ status \notin {0, NotExited} => stderr # <<>>

C22_Witness ==
  /\ prog = "loc"
  /\ status = 2
  /\ exc.kind = "upload"
  /\ Len(table) = MaxRows

\* C25 (as claimed): both entry points: a run with --upload and without
\* --bucket reads no row of the table, creates no file or object, and exits
\* with a non-zero status.
C25_NoBucketExitsFirst ==
  mpc # "none" /\ args.upload /\ ~args.bucket
    => /\ rows <= 1
       /\ written = 0
       /\ handles = <<>>
       /\ blob = OldObject
       /\ mpc = "exit" => status \notin {0, NotExited}
====
